---- MODULE Spec2Model ----
(***************************************************************************)
(* Model of the block-model engine of webmc: BlockModel.flatten            *)
(* (inheritance resolution), BlockModel.getTexture (texture-variable       *)
(* chase), BlockModel.getElementBuffers / getBuffers (mesh emission) and   *)
(* the packing loop of initBuffers in app.ts.                              *)
(*                                                                         *)
(* An optional value (T | undefined) is a sequence of length at most one:  *)
(* None is undefined, Some(v) is the value v.                              *)
(***************************************************************************)
EXTENDS Integers, Sequences, FiniteSets, TLC

VARIABLES
    models,      \* flatten: id -> the BlockModel object registered under it
    orig,        \* flatten: the models as constructed (never changes)
    pre,         \* flatten: the models just before the last flatten call
    lastTarget,  \* flatten: None, or Some(id) of the last top-level call
    lastThrew,   \* flatten: the last call ended in a RangeError
    streak,      \* flatten: consecutive top-level calls on lastTarget
    thisTextures, \* the textures mapping of the model under getTexture / getBuffers
    textureRef,  \* getTexture: the local textureRef
    pc,          \* getTexture: "idle", "test" (at the while test), "body" or "returned"
    thisElements, \* the elements of the model under getBuffers
    offset,      \* the index offset the last call was given
    out,         \* None, or Some(buffers) the last getBuffers / getElementBuffers call returned
    packed,      \* None, or Some(buffers) initBuffers built
    hung         \* the last call never returned

flattenVars == <<models, orig, pre, lastTarget, lastThrew, streak>>

textureVars == <<textureRef, pc>>

bufferVars == <<thisElements, offset, out, packed, hung>>

vars == <<flattenVars, thisTextures, textureVars, bufferVars>>

None == <<>>
Some(v) == <<v>>

----------------------------------------------------------------------------
(* Bounds *)

\* Depth of nested flatten frames at which the engine raises RangeError
\* ("Maximum call stack size exceeded"). Longer than any acyclic chain of
\* the models below.
StackLimit == 4

\* streak saturates here.
MaxStreak == 2

\* The most elements a model under getBuffers has.
MaxElems == 2

----------------------------------------------------------------------------
(* BlockModel objects and the registry *)

Directions == <<"up", "down", "north", "east", "south", "west">>
DirectionSet == {Directions[i] : i \in 1..Len(Directions)}

\* The ids under which the registry holds a model.
ModelIds == {"a", "b", "c"}

\* An id no model is registered under.
MissingId == "missing"

\* A JavaScript string is the sequence of its tokens: "" is <<>>, "#side" is
\* <<"#", "side">>, "minecraft:stone" is <<"minecraft:", "stone">>.
EmptyString == <<>>

\* Texture variable names used in the textures mappings during flatten.
TextureKeys == {<<"all">>}

\* A face carrying only a texture reference.
Face(texture) == [texture |-> texture, uv |-> None, rotation |-> None]

\* A full cube with a single textured face.
CubeWith(dir, texture) ==
    [from |-> <<0, 0, 0>>, to |-> <<16, 16, 16>>, rotation |-> None,
     faces |-> [d \in DirectionSet |-> IF d = dir THEN Some(Face(texture)) ELSE None]]

\* The element and the texture a model declares itself, named after it.
OwnElement(id) == CubeWith("up", <<id>>)
OwnTexture(id) == <<id>>

\* new BlockModel(id, parent, textures, elements): flattened starts false.
BlockModel(id, parent, textures, elements) ==
    [id |-> id, parent |-> parent, textures |-> textures,
     elements |-> elements, flattened |-> FALSE]

ParentChoices == {None} \cup {Some(p) : p \in ModelIds \cup {MissingId}}

\* Texture mappings a definition may carry: every declared variable holds
\* the empty string or the model's own texture.
TextureMaps(id) == [TextureKeys -> {EmptyString, OwnTexture(id)}]

TextureChoices(id) == {None} \cup {Some(t) : t \in TextureMaps(id)}

ElementChoices(id) == {None, Some(<<>>), Some(<<OwnElement(id)>>)}

\* BlockModelProvider.getBlockModel(id): the model's key in the registry,
\* or None (null) when no model is registered under id.
getBlockModel(id) == IF id \in ModelIds THEN Some(id) ELSE None

\* JavaScript truthiness of an optional string: undefined and "" are falsy.
TruthyString(s) == s # None /\ s[1] # ""

\* !this.textures![t]: the key is absent or holds the empty string.
FalsyEntry(map, t) == t \notin DOMAIN map \/ map[t] = EmptyString

\* The parts of the state an operation does not use.
IdleTexture == textureRef = EmptyString /\ pc = "idle"

IdleBuffers ==
    thisElements = None /\ offset = 0 /\ out = None /\ packed = None /\ hung = FALSE

----------------------------------------------------------------------------
(* flatten *)

\* Variant: the textures mapping is initialised before the parent lookup.
MarkFlattenedInitTextures(self) ==
    [self EXCEPT !.flattened = TRUE,
                 !.textures = IF @ = None THEN Some(<<>>) ELSE @]

\* The missing-parent branch: warn, mark flattened, return.
MarkFlattened(self) == [self EXCEPT !.flattened = TRUE]

\* Variant: the parent's elements are appended to the model's own and the
\* flag is left unset.
MergeAppending(self, parent) ==
    LET own == IF self.textures = None THEN <<>> ELSE self.textures[1]
        inh == IF parent.textures = None THEN <<>> ELSE parent.textures[1]
        merged == [t \in (DOMAIN own) \cup (DOMAIN inh) |->
                     IF t \in DOMAIN inh /\ FalsyEntry(own, t)
                     THEN inh[t] ELSE own[t]]
        ownEls == IF self.elements = None THEN <<>> ELSE self.elements[1]
        inhEls == IF parent.elements = None THEN <<>> ELSE parent.elements[1]
    IN [self EXCEPT !.elements = Some(ownEls \o inhEls),
                    !.textures = Some(merged)]

\* The merge from an already flattened parent, and the flag.
MergeFromParent(self, parent) ==
    LET own == IF self.textures = None THEN <<>> ELSE self.textures[1]
        inh == IF parent.textures = None THEN <<>> ELSE parent.textures[1]
        merged == [t \in (DOMAIN own) \cup (DOMAIN inh) |->
                     IF t \in DOMAIN inh /\ FalsyEntry(own, t)
                     THEN inh[t] ELSE own[t]]
    IN [self EXCEPT
          !.elements = IF self.elements = None THEN parent.elements ELSE @,
          !.textures = Some(merged),
          !.flattened = TRUE]

\* Variant: the child merges from its parent before the parent is flattened.
RECURSIVE FlattenMergeFirst(_, _, _)
FlattenMergeFirst(ms, id, depth) ==
    IF depth > StackLimit THEN [ms |-> ms, threw |-> TRUE]
    ELSE IF ~(~ms[id].flattened /\ TruthyString(ms[id].parent))
    THEN [ms |-> ms, threw |-> FALSE]
    ELSE LET parent == getBlockModel(ms[id].parent[1]) IN
         IF parent = None
         THEN [ms |-> [ms EXCEPT ![id] = MarkFlattened(@)], threw |-> FALSE]
         ELSE LET merged == [ms EXCEPT ![id] = MergeFromParent(@, ms[parent[1]])]
                  r == FlattenMergeFirst(merged, parent[1], depth + 1)
              IN r

\* this.flatten(accessor) with `depth` frames of flatten on the stack.
\* Returns the models afterwards and whether a RangeError propagated.
RECURSIVE Flatten(_, _, _)
Flatten(ms, id, depth) ==
    IF depth > StackLimit THEN [ms |-> ms, threw |-> TRUE]
    ELSE IF ~(~ms[id].flattened /\ TruthyString(ms[id].parent))
    THEN [ms |-> ms, threw |-> FALSE]
    ELSE LET parent == getBlockModel(ms[id].parent[1]) IN
         IF parent = None
         THEN [ms |-> [ms EXCEPT ![id] = MarkFlattened(@)], threw |-> FALSE]
         ELSE LET r == Flatten(ms, parent[1], depth + 1) IN
              IF r.threw THEN r
              ELSE [ms |-> [r.ms EXCEPT ![id] = MergeFromParent(@, r.ms[parent[1]])],
                    threw |-> FALSE]

InitFlatten ==
    /\ models \in [ModelIds -> UNION {
          {BlockModel(id, p, t, e) : p \in ParentChoices,
                                      t \in TextureChoices(id),
                                      e \in ElementChoices(id)} : id \in ModelIds}]
    /\ \A id \in ModelIds : models[id].id = id
    /\ orig = models
    /\ pre = models
    /\ lastTarget = None
    /\ lastThrew = FALSE
    /\ streak = 0
    /\ thisTextures = None
    /\ IdleTexture
    /\ IdleBuffers

\* A caller invokes model.flatten(registry) on the model registered as id.
CallFlatten(id) ==
    \E r \in {Flatten(models, id, 1)} :
    /\ models' = r.ms
    /\ pre' = models
    /\ lastTarget' = Some(id)
    /\ lastThrew' = r.threw
    /\ streak' = IF lastTarget = Some(id)
                 THEN (IF streak < MaxStreak THEN streak + 1 ELSE streak)
                 ELSE 1
    /\ UNCHANGED <<orig, thisTextures, textureVars, bufferVars>>

NextFlatten == \E id \in ModelIds : CallFlatten(id)

----------------------------------------------------------------------------
(* Properties of flatten *)

ParentOf(m) == m.parent[1]

HasParent(m) == TruthyString(m.parent)

ParentFound(m) == HasParent(m) /\ getBlockModel(ParentOf(m)) # None

\* The parent chain of id, as constructed, reaches a parentless model
\* through registered models only.
RECURSIVE ChainResolves(_, _)
ChainResolves(id, fuel) ==
    IF ~HasParent(orig[id]) THEN TRUE
    ELSE /\ fuel > 0
         /\ ParentFound(orig[id])
         /\ ChainResolves(ParentOf(orig[id]), fuel - 1)

\* The models on the parent chain of id (id included) that are registered.
RECURSIVE ChainMembers(_, _)
ChainMembers(id, fuel) ==
    IF fuel = 0 \/ ~ParentFound(orig[id]) THEN {id}
    ELSE {id} \cup ChainMembers(ParentOf(orig[id]), fuel - 1)

\* The elements, as constructed, of the nearest model on the chain of id
\* that defines elements; None if none does.
RECURSIVE NearestElements(_, _)
NearestElements(id, fuel) ==
    IF orig[id].elements # None THEN orig[id].elements
    ELSE IF fuel = 0 \/ ~ParentFound(orig[id]) THEN None
    ELSE NearestElements(ParentOf(orig[id]), fuel - 1)

ChainFuel == Cardinality(ModelIds)

\* C1: after flatten on a model whose parent is found in the registry, every
\* key of the model's own pre-call textures mapping, whatever string it
\* holds, still holds the model's own pre-call value.
C1_OwnTexturesWin ==
    \A id \in ModelIds :
        (lastTarget = Some(id) /\ ParentFound(pre[id]) /\ pre[id].textures # None)
        => /\ models[id].textures # None
           /\ \A k \in DOMAIN pre[id].textures[1] :
                /\ k \in DOMAIN models[id].textures[1]
                /\ models[id].textures[1][k] = pre[id].textures[1][k]

\* C2: when the parent chain of the flattened model resolves through
\* registered models to a parentless one, the call returns, every model on
\* the chain that has a parent is flattened, and each of them (the target
\* first) holds the elements of the nearest chain model defining elements,
\* or none if no model of the chain defines any.
C2_NearestElements ==
    \A id \in ModelIds :
        (lastTarget = Some(id) /\ ChainResolves(id, ChainFuel))
        => /\ ~lastThrew
           /\ \A m \in ChainMembers(id, ChainFuel) :
                /\ HasParent(orig[m]) => models[m].flattened
                /\ models[m].elements = NearestElements(m, ChainFuel)

\* C2 witness: a chain a -> b -> c of three distinct models, only the last
\* defining elements, has been flattened from its first model.
C2_Witness ==
    \E x \in ModelIds, y \in ModelIds, z \in ModelIds :
        /\ x # y /\ y # z /\ x # z
        /\ lastTarget = Some(x)
        /\ orig[x].parent = Some(y) /\ orig[y].parent = Some(z)
        /\ orig[z].parent = None
        /\ orig[x].elements = None /\ orig[y].elements = None
        /\ orig[z].elements = Some(<<OwnElement(z)>>)
        /\ ~pre[x].flattened /\ ~pre[y].flattened
        /\ models[x].elements = Some(<<OwnElement(z)>>)

\* C3: a second flatten call in a row on the same model leaves its elements
\* and textures as the first call left them.
C3_Idempotent ==
    \A id \in ModelIds :
        (lastTarget = Some(id) /\ streak >= 2)
        => /\ models[id].elements = pre[id].elements
           /\ models[id].textures = pre[id].textures

\* C3 witness: flatten was called twice in a row on a model whose first
\* call adopted the elements of its parent.
C3_Witness ==
    \E id \in ModelIds :
        /\ lastTarget = Some(id) /\ streak >= 2
        /\ ParentFound(orig[id])
        /\ orig[id].elements = None
        /\ models[id].elements # None
        /\ models[id].flattened

\* C4: when the model has a parent id and the registry holds no model for
\* it, flatten returns normally, leaves elements and textures as they were
\* and sets the flattened flag.
C4_MissingParent ==
    \A id \in ModelIds :
        (lastTarget = Some(id) /\ HasParent(pre[id])
            /\ getBlockModel(ParentOf(pre[id])) = None)
        => /\ ~lastThrew
           /\ models[id].elements = pre[id].elements
           /\ models[id].textures = pre[id].textures
           /\ models[id].flattened

\* C4 witness: an unflattened model without a textures mapping, whose
\* parent id is not registered, has been flattened.
C4_Witness ==
    \E id \in ModelIds :
        /\ lastTarget = Some(id)
        /\ pre[id].parent = Some(MissingId)
        /\ ~pre[id].flattened
        /\ pre[id].textures = None
        /\ models[id].flattened

\* C10: every flatten call returns normally, also when a model names itself
\* as parent or the parent ids lead back to a model being flattened, and
\* every model visited is then flattened or has no parent.
C10_FlattenTerminates ==
    \A id \in ModelIds :
        lastTarget = Some(id)
        => /\ ~lastThrew
           /\ \A m \in ChainMembers(id, ChainFuel) :
                models[m].flattened \/ ~HasParent(models[m])

----------------------------------------------------------------------------
(* getTexture *)

StartsWith(str, token) == Len(str) > 0 /\ str[1] = token

\* this.textures?.[textureRef.slice(1)] ?? ''
LookupVariable(tx, ref) ==
    IF tx # None /\ Tail(ref) \in DOMAIN tx[1] THEN tx[1][Tail(ref)] ELSE EmptyString

\* The namespace step after the loop.
Qualify(ref) == IF StartsWith(ref, "minecraft:") THEN ref ELSE <<"minecraft:">> \o ref

\* What a texture string may be: empty, a texture name with or without the
\* namespace, or a reference to a variable.
VariableNames == {<<"side">>, <<"top">>}

TextureStrings ==
    {EmptyString, <<"stone">>, <<"minecraft:", "stone">>}
        \cup {<<"#">> \o v : v \in VariableNames \cup {<<"undef">>}}

TextureMappings ==
    {None} \cup {Some(m) : m \in UNION {[ks -> TextureStrings] : ks \in SUBSET VariableNames}}

IdleFlatten ==
    /\ models = [id \in ModelIds |-> BlockModel(id, None, None, None)]
    /\ orig = models
    /\ pre = models
    /\ lastTarget = None
    /\ lastThrew = FALSE
    /\ streak = 0

\* getTexture has been entered with an argument and is at its loop test.
InitTexture ==
    /\ thisTextures \in TextureMappings
    /\ textureRef \in TextureStrings
    /\ pc = "test"
    /\ IdleFlatten
    /\ IdleBuffers

\* The while test succeeds: the loop body is entered.
EnterLoop ==
    /\ pc = "test"
    /\ StartsWith(textureRef, "#")
    /\ pc' = "body"
    /\ UNCHANGED <<textureRef, thisTextures, flattenVars, bufferVars>>

\* The loop body: the variable is looked up, and the test comes again.
ChaseStep ==
    /\ pc = "body"
    /\ textureRef' = LookupVariable(thisTextures, textureRef)
    /\ pc' = "test"
    /\ UNCHANGED <<thisTextures, flattenVars, bufferVars>>

\* The loop exits; the namespace is prepended if missing and the value returned.
ReturnTexture ==
    /\ pc = "test"
    /\ ~StartsWith(textureRef, "#")
    /\ textureRef' = Qualify(textureRef)
    /\ pc' = "returned"
    /\ UNCHANGED <<thisTextures, flattenVars, bufferVars>>

NextTexture == EnterLoop \/ ChaseStep \/ ReturnTexture

\* The loop runs on its own: a step that can be taken is taken.
SpecTexture == InitTexture /\ [][NextTexture]_vars /\ WF_vars(NextTexture)

\* C9: texture reference resolution terminates for every textures mapping
\* and every texture string, cyclic chains of defined variables included.
C9_ChaseTerminates == <>(pc = "returned")

\* getTexture as a function, for its callers. The chase of a mapping with n
\* variables that has not ended after n lookups is in a cycle and never
\* ends: Diverges stands for the call that does not return.
Diverges == <<"diverges">>

RECURSIVE Chase(_, _, _)
Chase(tx, ref, fuel) ==
    IF ~StartsWith(ref, "#") THEN Qualify(ref)
    ELSE IF fuel = 0 THEN Diverges
    ELSE Chase(tx, LookupVariable(tx, ref), fuel - 1)

GetTexture(tx, ref) ==
    Chase(tx, ref, IF tx = None THEN 1 ELSE Cardinality(DOMAIN tx[1]) + 1)

----------------------------------------------------------------------------
(* getElementBuffers *)

\* faceRotations: per face rotation, the 0-based positions in uv of the
\* u and v of the four corners.
faceRotations(rotation) ==
    CASE rotation = 0   -> <<0, 3, 2, 3, 2, 1, 0, 1>>
      [] rotation = 90  -> <<2, 3, 2, 1, 0, 1, 0, 3>>
      [] rotation = 180 -> <<2, 1, 0, 1, 0, 3, 2, 3>>
      [] rotation = 270 -> <<0, 1, 0, 3, 2, 3, 2, 1>>

\* The TextureUVProvider. Coordinates are kept in units in which part / 16
\* is a whole number, so the arithmetic of addFace is exact.
AtlasPart == 32

getUV(textureId) ==
    IF textureId = <<"minecraft:", "stone">> THEN <<64, 0>> ELSE <<0, 0>>

Max(a, b) == IF a >= b THEN a ELSE b

\* What addFace appends to: the three arrays, the running index i, and
\* whether a getTexture call did not return.
EmptyBuffers(i) ==
    [position |-> <<>>, texCoord |-> <<>>, index |-> <<>>, i |-> i, hung |-> FALSE]

\* addFace(face, uv, pos)
addFace(acc, tx, face, uv, pos) ==
    LET id == GetTexture(tx, face.texture)
        o == getUV(id)
        p == AtlasPart \div 16
        src == IF face.uv = None THEN uv ELSE face.uv[1]
        scaled == [k \in 1..Max(Len(uv), Len(src)) |->
                     IF k <= Len(src) THEN p * src[k] ELSE uv[k]]
        r == faceRotations(IF face.rotation = None THEN 0 ELSE face.rotation[1])
        i == acc.i
    IN IF acc.hung \/ id = Diverges THEN [acc EXCEPT !.hung = TRUE]
       ELSE [acc EXCEPT
               !.texCoord = @ \o << o[1] + scaled[r[1] + 1], o[2] + scaled[r[2] + 1],
                                    o[1] + scaled[r[3] + 1], o[2] + scaled[r[4] + 1],
                                    o[1] + scaled[r[5] + 1], o[2] + scaled[r[6] + 1],
                                    o[1] + scaled[r[7] + 1], o[2] + scaled[r[8] + 1] >>,
               !.position = @ \o pos,
               !.index = @ \o <<i, i + 1, i + 2, i, i + 2, i + 3>>,
               !.i = i + 4]

\* Variant: a face is emitted whenever it is declared.
HasFace(e, dir) ==
    /\ e.faces # None
    /\ e.faces[1][dir] # None

\* e.faces?.<dir>?.texture
HasTexture(e, dir) ==
    /\ e.faces # None
    /\ e.faces[1][dir] # None
    /\ e.faces[1][dir][1].texture # EmptyString

\* The default uv rectangle of each direction.
DefaultUV(e, dir) ==
    LET x0 == e.from[1]  y0 == e.from[2]  z0 == e.from[3]
        x1 == e.to[1]    y1 == e.to[2]    z1 == e.to[3]
    IN CASE dir = "up"    -> <<16 - x1, z1, 16 - x0, z0>>
         [] dir = "down"  -> <<16 - z1, 16 - x1, 16 - z0, 16 - x0>>
         [] dir = "south" -> <<x0, 16 - y1, x1, 16 - y0>>
         [] dir = "north" -> <<16 - x1, 16 - y1, 16 - x0, 16 - y0>>
         [] dir = "east"  -> <<16 - z1, 16 - y1, 16 - z0, 16 - y0>>
         [] dir = "west"  -> <<z0, 16 - y1, z1, 16 - y0>>

\* The four corners of each direction's quad.
FaceQuad(e, dir) ==
    LET x0 == e.from[1]  y0 == e.from[2]  z0 == e.from[3]
        x1 == e.to[1]    y1 == e.to[2]    z1 == e.to[3]
    IN CASE dir = "up"    -> <<x0, y1, z1,  x1, y1, z1,  x1, y1, z0,  x0, y1, z0>>
         [] dir = "down"  -> <<x0, y0, z0,  x1, y0, z0,  x1, y0, z1,  x0, y0, z1>>
         [] dir = "south" -> <<x0, y0, z1,  x1, y0, z1,  x1, y1, z1,  x0, y1, z1>>
         [] dir = "north" -> <<x1, y0, z0,  x0, y0, z0,  x0, y1, z0,  x1, y1, z0>>
         [] dir = "east"  -> <<x1, y0, z1,  x1, y0, z0,  x1, y1, z0,  x1, y1, z1>>
         [] dir = "west"  -> <<x0, y0, z0,  x0, y0, z1,  x0, y1, z1,  x0, y1, z0>>

\* if (e.faces?.<dir>?.texture) addFace(e.faces.<dir>, uv, pos)
AddIfTextured(acc, tx, e, dir) ==
    IF HasTexture(e, dir)
    THEN addFace(acc, tx, e.faces[1][dir][1], DefaultUV(e, dir), FaceQuad(e, dir))
    ELSE acc

\* The cosine and sine of a multiple of 90 degrees.
Cos90(angle) ==
    CASE angle % 360 = 0 -> 1 [] angle % 360 = 180 -> -1 [] OTHER -> 0

Sin90(angle) ==
    CASE angle % 360 = 90 -> 1 [] angle % 360 = 270 -> -1 [] OTHER -> 0

\* The matrix t applied to a point v: identity without a rotation, otherwise
\* translate(origin) * rotate(angle, axis) * translate(-origin).
Transform(e, v) ==
    IF e.rotation = None THEN v
    ELSE LET rot == e.rotation[1]
             c == Cos90(rot.angle)
             s == Sin90(rot.angle)
             x == v[1] - rot.origin[1]
             y == v[2] - rot.origin[2]
             z == v[3] - rot.origin[3]
             w == CASE rot.axis = "y" -> <<c * x + s * z, y, c * z - s * x>>
                    [] rot.axis = "x" -> <<x, c * y - s * z, s * y + c * z>>
                    [] OTHER          -> <<c * x - s * y, s * x + c * y, z>>
         IN <<w[1] + rot.origin[1], w[2] + rot.origin[2], w[3] + rot.origin[3]>>

\* return { position: positions, texCoord: texCoords, index: indices }
ReturnBuffers(acc) ==
    [position |-> acc.position, texCoord |-> acc.texCoord,
     index |-> acc.index, hung |-> acc.hung]

\* Variant: north is emitted before east and south, as Direction lists them.
ElementBuffersNorthFirst(e, i, tx) ==
    LET a1 == AddIfTextured(EmptyBuffers(i), tx, e, "up")
        a2 == AddIfTextured(a1, tx, e, "down")
        a3 == AddIfTextured(a2, tx, e, "north")
        a4 == AddIfTextured(a3, tx, e, "east")
        a5 == AddIfTextured(a4, tx, e, "south")
        a6 == AddIfTextured(a5, tx, e, "west")
    IN ReturnBuffers(a6)

\* getElementBuffers(e, i, uvProvider). The matrix t is built and not used:
\* the positions are returned as addFace pushed them.
getElementBuffers(e, i, tx) ==
    LET a1 == AddIfTextured(EmptyBuffers(i), tx, e, "up")
        a2 == AddIfTextured(a1, tx, e, "down")
        a3 == AddIfTextured(a2, tx, e, "south")
        a4 == AddIfTextured(a3, tx, e, "north")
        a5 == AddIfTextured(a4, tx, e, "east")
        a6 == AddIfTextured(a5, tx, e, "west")
    IN ReturnBuffers(a6)

\* The elements getElementBuffers is exercised on: two cuboids, four
\* rotations, and every assignment of a face to the six directions.
Cuboids == {<<<<0, 0, 0>>, <<16, 16, 16>>>>, <<<<2, 0, 4>>, <<14, 10, 12>>>>}

ElementRotations ==
    {None,
     Some([origin |-> <<8, 8, 8>>, axis |-> "y", angle |-> 90]),
     Some([origin |-> <<0, 0, 0>>, axis |-> "x", angle |-> 180]),
     Some([origin |-> <<8, 0, 8>>, axis |-> "z", angle |-> 270])}

StoneFace == Face(<<"stone">>)
BlankFace == Face(EmptyString)
SideFace ==
    [texture |-> <<"#", "side">>, uv |-> Some(<<0, 0, 8, 8>>), rotation |-> Some(90)]

FaceChoices == {None, Some(BlankFace), Some(StoneFace), Some(SideFace)}

ElementsUnderTest ==
    {[from |-> c[1], to |-> c[2], rotation |-> r, faces |-> f] :
        c \in Cuboids, r \in ElementRotations,
        f \in {None} \cup {Some(m) : m \in [DirectionSet -> FaceChoices]}}

\* The textures of the model owning the elements: the variable side
\* resolves to a texture, or refers to itself.
OwnerTextures ==
    {Some([v \in {<<"side">>} |-> <<"stone">>]),
     Some([v \in {<<"side">>} |-> <<"#", "side">>])}

StartOffsets == {0, 5}

InitElement ==
    /\ thisTextures \in OwnerTextures
    /\ thisElements \in {Some(<<e>>) : e \in ElementsUnderTest}
    /\ offset = 0
    /\ out = None
    /\ packed = None
    /\ hung = FALSE
    /\ IdleFlatten
    /\ IdleTexture

\* getBuffers calls this.getElementBuffers(element, i, uvProvider).
CallGetElementBuffers(i) ==
    \E r \in {getElementBuffers(thisElements[1][1], i, thisTextures)} :
    /\ offset' = i
    /\ hung' = r.hung
    /\ out' = IF r.hung THEN None
              ELSE Some([position |-> r.position, texCoord |-> r.texCoord,
                         index |-> r.index])
    /\ UNCHANGED <<thisElements, thisTextures, packed, flattenVars, textureVars>>

NextElement == \E i \in StartOffsets : CallGetElementBuffers(i)

SpecElement == InitElement /\ [][NextElement]_vars

----------------------------------------------------------------------------
(* Properties of getElementBuffers *)

TheElement == thisElements[1][1]

\* The directions of e whose face is declared with a non-empty texture.
Textured(e) ==
    IF e.faces = None THEN {}
    ELSE {d \in DirectionSet :
            e.faces[1][d] # None /\ e.faces[1][d][1].texture # EmptyString}

QuadIndices(i) == <<i, i + 1, i + 2, i, i + 2, i + 3>>

\* The r-th quad (0-based) of the returned buffers is the face dir of the
\* element: its four corners, and the two triangles over its own vertices.
BlockIs(b, r, dir, start) ==
    /\ 12 * r + 12 <= Len(b.position)
    /\ 6 * r + 6 <= Len(b.index)
    /\ SubSeq(b.position, 12 * r + 1, 12 * r + 12) = FaceQuad(TheElement, dir)
    /\ SubSeq(b.index, 6 * r + 1, 6 * r + 6) = QuadIndices(start + 4 * r)

\* Whenever two faces are both emitted, the one earlier in order occupies
\* the lower vertex range and the lower index values.
EmittedInOrder(order) ==
    out # None =>
        \A a \in 1..Len(order), b \in 1..Len(order) :
            (a < b /\ {order[a], order[b]} \subseteq Textured(TheElement))
            => \E r1 \in 0..5, r2 \in 0..5 :
                 /\ r1 < r2
                 /\ BlockIs(out[1], r1, order[a], offset)
                 /\ BlockIs(out[1], r2, order[b], offset)

\* The order in which the faces are emitted.
EmissionOrder == <<"up", "down", "south", "north", "east", "west">>

\* C7 as stated: the present faces of an element are emitted in the order
\* up, down, north, east, south, west.
C7_OrderAsStated == EmittedInOrder(Directions)

\* C7 amended: the present faces of an element are emitted in the order
\* up, down, south, north, east, west.
C7_EmissionOrder == EmittedInOrder(EmissionOrder)

\* C7 witness: buffers were returned for an element whose north, east and
\* south faces are all textured.
C7_Witness ==
    /\ out # None
    /\ thisElements # None /\ Len(thisElements[1]) = 1
    /\ {"north", "east", "south"} \subseteq Textured(TheElement)
    /\ Len(out[1].index) >= 18

RECURSIVE RotatedQuads(_, _)
RotatedQuads(e, k) ==
    IF k = 0 THEN <<>>
    ELSE LET dir == EmissionOrder[k]
             q == FaceQuad(e, dir)
             corner(j) == Transform(e, <<q[3 * j + 1], q[3 * j + 2], q[3 * j + 3]>>)
         IN RotatedQuads(e, k - 1) \o
            (IF dir \in Textured(e)
             THEN corner(0) \o corner(1) \o corner(2) \o corner(3)
             ELSE <<>>)

\* C8: the positions returned for an element are its face corners rotated
\* by the declared rotation about its origin (unrotated without one).
C8_PositionsRotated ==
    out # None => out[1].position = RotatedQuads(TheElement, Len(EmissionOrder))

----------------------------------------------------------------------------
(* getBuffers and initBuffers *)

\* position.push(...), texCoord.push(...), index.push(...)
PushBuffers(acc, b) ==
    [position |-> acc.position \o b.position,
     texCoord |-> acc.texCoord \o b.texCoord,
     index |-> acc.index \o b.index,
     hung |-> acc.hung \/ b.hung]

NoBuffers == [position |-> <<>>, texCoord |-> <<>>, index |-> <<>>, hung |-> FALSE]

RECURSIVE BuffersFrom(_, _, _, _, _)

\* Variant: the offset is not advanced from one element to the next.
SameOffset(els, k, acc, off, tx, buffers) ==
    BuffersFrom(els, k + 1, PushBuffers(acc, buffers), off, tx)

\* The body of the loop of getBuffers once getElementBuffers has returned
\* buffers: push them, advance the offset by the vertices emitted.
PushAndAdvance(els, k, acc, off, tx, buffers) ==
    BuffersFrom(els, k + 1, PushBuffers(acc, buffers),
                off + Len(buffers.texCoord) \div 2, tx)

\* The loop of getBuffers from element k on.
BuffersFrom(els, k, acc, off, tx) ==
    IF k > Len(els) THEN acc
    ELSE PushAndAdvance(els, k, acc, off, tx, getElementBuffers(els[k], off, tx))

\* model.getBuffers(uvProvider, offset) on a model with these elements and
\* textures.
getBuffers(els, tx, off) ==
    BuffersFrom(IF els = None THEN <<>> ELSE els[1], 1, NoBuffers, off, tx)

\* structure.blocks: the palette state of each block of the structure.
structureBlocks == <<0, 0, 1, 2, 3, 4>>

\* The models of the palette: the model under test for state 0, a full stone
\* cube for the others.
StoneCube ==
    [els |-> Some(<<[from |-> <<0, 0, 0>>, to |-> <<16, 16, 16>>, rotation |-> None,
                     faces |-> Some([d \in DirectionSet |-> Some(StoneFace)])]>>),
     tx |-> None]

getModel(palette, state) == IF state = 0 THEN palette ELSE StoneCube

ToUint16(n) == n % 65536

RECURSIVE PackFrom(_, _, _, _)

\* The body of the loop of initBuffers once getBuffers has returned buffers.
PackAndAdvance(palette, k, acc, indexOffset, buffers) ==
    PackFrom(palette, k + 1, PushBuffers(acc, buffers),
             indexOffset + Len(buffers.texCoord) \div 2)

\* model.getBuffers(blockAtlas, indexOffset, ...) on the model of a block.
BlockBuffers(model, indexOffset) == getBuffers(model.els, model.tx, indexOffset)

\* The loop of initBuffers from block k on.
PackFrom(palette, k, acc, indexOffset) ==
    IF k > Len(structureBlocks) THEN acc
    ELSE PackAndAdvance(palette, k, acc, indexOffset,
             BlockBuffers(getModel(palette, structureBlocks[k]), indexOffset))

\* The arrays handed to createBuffer, and length.
PackedBuffers(r) ==
    [position |-> r.position,
     textureCoord |-> r.texCoord,
     indices |-> [k \in 1..Len(r.index) |-> ToUint16(r.index[k])],
     length |-> Len(r.index),
     hung |-> r.hung]

\* initBuffers(gl), the models of the palette given.
initBuffers(palette) == PackedBuffers(PackFrom(palette, 1, NoBuffers, 0))

\* The elements of the models getBuffers is exercised on: a full cube whose
\* faces are declared on up, north or west alone, on north and south, or on all six,
\* all blank or all textured, and cubes mixing blank faces, textured faces
\* and faces whose texture is a variable.
DeclaredSets == {{"up"}, {"north"}, {"west"}, {"north", "south"}, DirectionSet}

FaceMaps ==
    {[d \in DirectionSet |-> IF d \in ds THEN Some(f) ELSE None] :
        ds \in DeclaredSets, f \in {BlankFace, StoneFace}}
    \cup {[d \in DirectionSet |-> None],
          [d \in DirectionSet |-> IF d \in {"up", "north", "east"}
                                  THEN Some(StoneFace) ELSE Some(BlankFace)],
          [d \in DirectionSet |-> IF d \in {"down", "south"}
                                  THEN Some(SideFace) ELSE None]}

ModelElements ==
    {[from |-> <<0, 0, 0>>, to |-> <<16, 16, 16>>, rotation |-> None, faces |-> f] :
        f \in {None} \cup {Some(m) : m \in FaceMaps}}

ElementLists == UNION {[1..n -> ModelElements] : n \in 0..MaxElems}

InitModelBuffers ==
    /\ thisTextures \in OwnerTextures
    /\ thisElements \in {None} \cup {Some(l) : l \in ElementLists}
    /\ offset = 0
    /\ out = None
    /\ packed = None
    /\ hung = FALSE
    /\ IdleFlatten
    /\ IdleTexture

\* A caller invokes model.getBuffers(uvProvider, start).
CallGetBuffers(start) ==
    \E r \in {getBuffers(thisElements, thisTextures, start)} :
    /\ offset' = start
    /\ hung' = r.hung
    /\ out' = IF r.hung THEN None
              ELSE Some([position |-> r.position, texCoord |-> r.texCoord,
                         index |-> r.index])
    /\ UNCHANGED <<thisElements, thisTextures, packed, flattenVars, textureVars>>

\* initGl calls initBuffers(gl).
CallInitBuffers ==
    \E r \in {initBuffers([els |-> thisElements, tx |-> thisTextures])} :
    /\ hung' = r.hung
    /\ packed' = IF r.hung THEN None
                 ELSE Some([position |-> r.position, textureCoord |-> r.textureCoord,
                            indices |-> r.indices, length |-> r.length])
    /\ UNCHANGED <<thisElements, thisTextures, offset, out, flattenVars, textureVars>>

NextBuffers == (\E start \in StartOffsets : CallGetBuffers(start)) \/ CallInitBuffers

SpecBuffers == InitModelBuffers /\ [][NextBuffers]_vars

----------------------------------------------------------------------------
(* Properties of getBuffers *)

RECURSIVE SumFaces(_, _)
SumFaces(els, k) ==
    IF k = 0 THEN 0 ELSE SumFaces(els, k - 1) + Cardinality(Textured(els[k]))

\* F_total: the faces declared with a non-empty texture, over all elements.
TotalFaces(els) == IF els = None THEN 0 ELSE SumFaces(els[1], Len(els[1]))

\* C5: getBuffers returns 6 indices, 12 position components and 8 texcoord
\* components per emitted face; three empty arrays without elements.
C5_BufferLengths ==
    out # None =>
        /\ Len(out[1].index) = 6 * TotalFaces(thisElements)
        /\ Len(out[1].position) = 12 * TotalFaces(thisElements)
        /\ Len(out[1].texCoord) = 8 * TotalFaces(thisElements)

\* C5 witness: buffers were returned for a model of two elements, the
\* second one declaring blank faces beside textured ones.
C5_Witness ==
    /\ out # None
    /\ thisElements # None /\ Len(thisElements[1]) = 2
    /\ Cardinality(Textured(thisElements[1][1])) = 6
    /\ Cardinality(Textured(thisElements[1][2])) = 3
    /\ Len(out[1].index) = 54

RECURSIVE QuadsFrom(_, _)
QuadsFrom(s, n) == IF n = 0 THEN <<>> ELSE QuadsFrom(s, n - 1) \o QuadIndices(s + 4 * (n - 1))

\* C6: the k-th emitted face of getBuffers(uvProvider, s), counted across
\* the elements, contributes the indices s+4k, s+4k+1, s+4k+2, s+4k, s+4k+2,
\* s+4k+3; the vertices returned number 4 * F_total, so a caller advancing
\* its offset by them keeps the indices of successive models apart, as
\* initBuffers does over the blocks of the structure.
C6_IndicesThreaded ==
    /\ out # None =>
         /\ out[1].index = QuadsFrom(offset, TotalFaces(thisElements))
         /\ Len(out[1].texCoord) = 2 * 4 * TotalFaces(thisElements)
         /\ \A k \in 1..Len(out[1].index) :
              /\ out[1].index[k] >= offset
              /\ out[1].index[k] < offset + 4 * TotalFaces(thisElements)
    /\ packed # None =>
         /\ packed[1].indices = QuadsFrom(0, packed[1].length \div 6)
         /\ packed[1].length = 6 * (2 * TotalFaces(thisElements) + 4 * 6)

\* C6 witness: getBuffers and initBuffers have both returned, for a model
\* of two elements that both emit faces and an offset above zero.
C6_Witness ==
    /\ out # None /\ packed # None
    /\ offset > 0
    /\ thisElements # None /\ Len(thisElements[1]) = 2
    /\ Cardinality(Textured(thisElements[1][1])) >= 2
    /\ Cardinality(Textured(thisElements[1][2])) >= 2

----------------------------------------------------------------------------

Init == InitFlatten

Next == NextFlatten

Spec == Init /\ [][Next]_vars

====
